---------------------------- MODULE Spec2Model ----------------------------
(***************************************************************************)
(* A model of pdf-renamer (src/renamer.py, src/app.py):                    *)
(*   - the metadata resolution waterfall, resolve_metadata, with the       *)
(*     provider clients it consults;                                       *)
(*   - the rename executor and the undo journal.                           *)
(* Confidences are kept in hundredths (1.0 is 100, 0.85 is 85).            *)
(***************************************************************************)
EXTENDS Integers, Sequences, FiniteSets, TLC

VARIABLES
    \* ---- resolution waterfall (one document per behaviour) ----
    doc,        \* the document: its path and what extract_pdf_info found in it
    settings,   \* load_settings(): are the Zotero credentials present
    pc,         \* position of resolve_metadata
    calls,      \* the provider clients invoked so far, in order
    net,        \* the HTTP requests issued so far, in order
    resp,       \* the response the last HTTP request received
    rets,       \* what each invoked client returned, in order
    result,     \* what resolve_metadata returned
    \* ---- rename executor and undo journal ----
    fs,         \* the directory: which file is at each path (NoFile: none)
    journal,    \* the entries of rename_log.json, in append order
    faulted,    \* an I/O call of execute_renames has raised
    last,       \* the last step taken, and what it returned
    batch,      \* the /execute request being served: its files, its results
    threads,    \* request handlers running side by side, each with the
                \* journal it loaded
    \* ---- file name generation ----
    names       \* a name, followed by what _sanitize_filename made of it
                \* and of its own results

wvars == <<doc, settings, pc, calls, net, resp, rets, result>>
jvars == <<fs, journal, faulted, last, batch, threads>>
gvars == <<names>>
vars == <<doc, settings, pc, calls, net, resp, rets, result, fs, journal, faulted,
          last, batch, threads, names>>

-----------------------------------------------------------------------------
(* Bounds of the model *)

\* words in an extracted title guess
MaxQueryWords == 3
\* words in the title of a provider's top-ranked item
MaxResultWords == 2
\* entries the journal may grow to
MaxJournal == 2
\* files of one /execute request
MaxBatch == 2
\* runs of equal characters in a name handed to _sanitize_filename
MaxNameRuns == 3

-----------------------------------------------------------------------------
(* Values *)

\* Python's None, where a string is expected
NoneVal == "None"

\* Python's None, where a metadata record is expected
NoRecord == [none |-> TRUE]

\* title_guess None: the one falsy title extract_pdf_info produces
NoTitle == << >>

\* words of extracted title guesses, and of the titles providers return
QueryWords == {"Deep", "nets", "maps"}
ResultWords == {"deep", "Nets"}

\* str.lower() on one word
Lower(w) ==
    CASE w = "Deep" -> "deep"
      [] w = "Nets" -> "nets"
      [] OTHER -> w

RECURSIVE SeqsUpTo(_, _)
SeqsUpTo(S, n) ==
    IF n = 0 THEN {<< >>}
    ELSE LET shorter == SeqsUpTo(S, n - 1)
         IN  shorter \cup {Append(s, x) : s \in shorter, x \in S}

\* a title is the sequence of its whitespace-separated words
QueryTitles == SeqsUpTo(QueryWords, MaxQueryWords) \ {<< >>}
ResultTitles == SeqsUpTo(ResultWords, MaxResultWords)

\* a path is a sequence of tokens: "/" (os.sep), "." (extsep), or a chunk
\* of other characters
DocDir == <<"/", "my", ".", "docs", "/">>
DocStems == {<<"raw_scan">>, <<".", "a", ".", "b">>}
DocPaths == {DocDir \o stem \o <<".", "pdf">> : stem \in DocStems}

\* what extract_pdf_info returns for a document (the identifier bundle)
Docs ==
    [path : DocPaths,
     doi : {NoneVal, "10.1000/x"},
     isbn : {NoneVal, "9780131103627"},
     title_guess : {NoTitle} \cup QueryTitles]

\* load_settings(): the Zotero credentials, "" when not configured
Settings == [zotero_api_key : {"", "KEY"}, zotero_library_id : {"", "42"}]

\* a provider's top-ranked item, reduced to the fields the clients read
ItemOf(t, full) ==
    [title |-> t,
     authors |-> IF full THEN <<"Smith, J">> ELSE << >>,
     year |-> IF full THEN "2020" ELSE "",
     journal |-> IF full THEN "Nature" ELSE "",
     publisher |-> IF full THEN "ACM" ELSE "",
     doi |-> IF full THEN "10.1000/x" ELSE "",
     key |-> IF full THEN "ZK1" ELSE ""]

\* the item a client sees when every .get() falls back to its default
EmptyItem == ItemOf(<< >>, FALSE)

NoItem == [none |-> TRUE]

\* how an HTTP request can end
\*   network_error, timeout : SESSION.get raises
\*   bad_status             : a response whose status_code is not 200
\*   bad_body               : status 200, r.json() raises
\*   no_envelope            : status 200, JSON without the member the client
\*                            reads the result from
\*   empty                  : status 200, an empty result list
\*   match                  : status 200, a top-ranked item
RaisingKinds == {"network_error", "timeout", "bad_body"}
FailureKinds == RaisingKinds \cup {"bad_status", "no_envelope"}
NoMatchKinds == FailureKinds \cup {"empty"}

FixedItems == {ItemOf(<<"deep", "Nets">>, TRUE), EmptyItem}
SearchItems == {ItemOf(t, TRUE) : t \in ResultTitles}

ResponsesOver(kinds, items) ==
    {[kind |-> k, item |-> NoItem] : k \in kinds}
        \cup {[kind |-> "match", item |-> i] : i \in items}

\* GET /works/{doi}: an unknown DOI is a 404, there is no empty result list
DoiResponses == ResponsesOver(FailureKinds, FixedItems)
LookupResponses == ResponsesOver(NoMatchKinds, FixedItems)
SearchResponses == ResponsesOver(NoMatchKinds, SearchItems)

NoResponse == [kind |-> "none", item |-> NoItem]

-----------------------------------------------------------------------------
(* Pure helpers *)

\* title.lower().split() as a set
lower_split_set(title) == {Lower(title[i]) : i \in DOMAIN title}

\* round(k / n, 2) in hundredths, ties to even as Python's round
round2(k, n) ==
    LET q == (100 * k) \div n
        r == (100 * k) % n
    IN  IF 2 * r < n THEN q
        ELSE IF 2 * r > n THEN q + 1
        ELSE IF q % 2 = 0 THEN q ELSE q + 1

LastIndexOf(s, x) ==
    LET hits == {i \in DOMAIN s : s[i] = x}
    IN  IF hits = {} THEN 0 ELSE CHOOSE i \in hits : \A j \in hits : j <= i

\* os.path.basename
basename(p) == SubSeq(p, LastIndexOf(p, "/") + 1, Len(p))

\* os.path.splitext: the extension starts at the last dot, unless only dots
\* precede it in the file name
splitext(p) ==
    LET sepIndex == LastIndexOf(p, "/")
        dotIndex == LastIndexOf(p, ".")
    IN  IF /\ dotIndex > sepIndex
           /\ \E i \in (sepIndex + 1)..(dotIndex - 1) : p[i] # "."
        THEN <<SubSeq(p, 1, dotIndex - 1), SubSeq(p, dotIndex, Len(p))>>
        ELSE <<p, << >>>>

-----------------------------------------------------------------------------
(* Provider clients *)

\* the design-time confidences, in hundredths
ExactConfidence == 100
OpenLibraryConfidence == 90
GoogleBooksConfidence == 85
SemanticScholarConfidence == 70
ZoteroConfidence == 95
\* the acceptance threshold of the title search, in hundredths
AcceptThreshold == 50

_parse_crossref_item(item) ==
    [title |-> item.title,
     authors |-> item.authors,
     year |-> item.year,
     journal |-> item.journal,
     publisher |-> item.publisher,
     doi |-> item.doi,
     source |-> "crossref",
     confidence |-> ExactConfidence]

crossref_lookup_doi(r) ==
    CASE r.kind \in RaisingKinds -> NoRecord
      [] r.kind = "bad_status" -> NoRecord
      \* r.json().get("message", {}): a missing member parses as an empty item
      [] r.kind = "no_envelope" -> _parse_crossref_item(EmptyItem)
      [] OTHER -> _parse_crossref_item(r.item)

crossref_search_title(title, r) ==
    CASE r.kind \in RaisingKinds -> NoRecord
      [] r.kind = "bad_status" -> NoRecord
      [] r.kind \in {"no_envelope", "empty"} -> NoRecord
      [] OTHER ->
           LET parsed == _parse_crossref_item(r.item)
               words_q == lower_split_set(title)
               words_r == lower_split_set(parsed.title)
           IN  IF parsed.title # << >> /\ title # << >> /\ words_q # {}
               THEN [parsed EXCEPT !.confidence =
                        round2(Cardinality(words_q \cap words_r),
                               Cardinality(words_q))]
               ELSE parsed

semantic_scholar_search(title, r) ==
    CASE r.kind \in RaisingKinds -> NoRecord
      [] r.kind = "bad_status" -> NoRecord
      [] r.kind \in {"no_envelope", "empty"} -> NoRecord
      [] OTHER ->
           [title |-> r.item.title,
            authors |-> r.item.authors,
            year |-> r.item.year,
            journal |-> r.item.journal,
            publisher |-> "",
            doi |-> r.item.doi,
            source |-> "semantic_scholar",
            confidence |-> SemanticScholarConfidence]

_open_library_isbn(isbn, r) ==
    CASE r.kind \in RaisingKinds -> NoRecord
      [] r.kind = "bad_status" -> NoRecord
      [] r.kind \in {"no_envelope", "empty"} -> NoRecord
      [] OTHER ->
           [title |-> r.item.title,
            authors |-> r.item.authors,
            year |-> r.item.year,
            journal |-> "",
            publisher |-> r.item.publisher,
            doi |-> "",
            isbn |-> isbn,
            source |-> "open_library",
            confidence |-> OpenLibraryConfidence]

_google_books_isbn(isbn, r) ==
    CASE r.kind \in RaisingKinds -> NoRecord
      [] r.kind = "bad_status" -> NoRecord
      [] r.kind \in {"no_envelope", "empty"} -> NoRecord
      [] OTHER ->
           [title |-> r.item.title,
            authors |-> r.item.authors,
            year |-> r.item.year,
            journal |-> "",
            publisher |-> r.item.publisher,
            doi |-> "",
            isbn |-> isbn,
            source |-> "google_books",
            confidence |-> GoogleBooksConfidence]

\* zotero_search returns before any request when a credential is missing
HasZoteroCredentials(s) == s.zotero_api_key # "" /\ s.zotero_library_id # ""

zotero_search(title, s, r) ==
    IF ~HasZoteroCredentials(s) THEN NoRecord
    ELSE CASE r.kind \in RaisingKinds -> NoRecord
           [] r.kind = "bad_status" -> NoRecord
           [] r.kind \in {"no_envelope", "empty"} -> NoRecord
           [] OTHER ->
                [title |-> r.item.title,
                 authors |-> r.item.authors,
                 year |-> r.item.year,
                 journal |-> r.item.journal,
                 publisher |-> r.item.publisher,
                 doi |-> r.item.doi,
                 source |-> "zotero",
                 confidence |-> ZoteroConfidence,
                 zotero_key |-> r.item.key]

\* manual_review_record, had resolve_metadata ended by returning the last
\* lookup's None
manual_review_record_none(d) == NoRecord

\* manual_review_record, had the extension been left on the file name
manual_review_record_with_extension(d) ==
    [title |-> IF d.title_guess # NoTitle THEN d.title_guess
               ELSE basename(d.path),
     authors |-> << >>,
     year |-> "",
     journal |-> "",
     publisher |-> "",
     doi |-> d.doi,
     source |-> "manual_review",
     confidence |-> 0]

\* the record resolve_metadata synthesizes when no provider matched
manual_review_record(d) ==
    [title |-> IF d.title_guess # NoTitle THEN d.title_guess
               ELSE splitext(basename(d.path))[1],
     authors |-> << >>,
     year |-> "",
     journal |-> "",
     publisher |-> "",
     doi |-> d.doi,
     source |-> "manual_review",
     confidence |-> 0]

-----------------------------------------------------------------------------
(* Files, paths and the journal *)

\* the files of the directory, told apart by their content
Contents == {"f1", "f2"}
NoFile == "none"

\* All files live in one directory, so a path is a file name. A name is its
\* pathlib stem and suffix; n > 0 stands for the stem ending in " (n)", the
\* disambiguator execute_renames appends. Disambiguating a name skips at
\* most the other files of the directory, so n never exceeds their number.
Stems == {"Paper", "scan"}
Names == [stem : Stems, n : 0..Cardinality(Contents), ext : {".pdf"}]

\* the names a batch may propose
ProposedNames == {nm \in Names : nm.n = 0}

\* f"{stem} ({counter}){suffix}"
Disambiguated(nm, counter) == [nm EXCEPT !.n = counter]

exists(dir, path) == dir[path] # NoFile

\* shutil.move of an existing file to a path that is free or the file's own
move(dir, src, dst) ==
    IF src = dst THEN dir
    ELSE [dir EXCEPT ![dst] = dir[src], ![src] = NoFile]

SessionIds == {"s1", "s2"}

\* the batch items: f["original_path"] and f["new_name"]
BatchItems == [original_path : Names, new_name : ProposedNames]

\* how the I/O of one item of execute_renames ends: both calls return, or
\* shutil.move raises, or log_rename raises after the move
IoOutcomes == {"ok", "move_raises", "log_raises"}

NoOp == [op |-> "none"]

\* no /execute request is being served
NoBatch == [phase |-> "idle"]

\* the worker threads of the server
Threads == {"t1", "t2"}

\* a thread that serves no request
IdleThread == [at |-> "idle"]

-----------------------------------------------------------------------------
(* Rename log *)

\* log_rename, had the new entry been put at the head of the list
log_rename_prepend(entries, original, new_path, metadata_source, session_id) ==
    <<[original_path |-> original,
       new_path |-> new_path,
       metadata_source |-> metadata_source,
       session_id |-> session_id,
       undone |-> FALSE]>> \o entries

log_rename(entries, original, new_path, metadata_source, session_id) ==
    Append(entries,
           [original_path |-> original,
            new_path |-> new_path,
            metadata_source |-> metadata_source,
            session_id |-> session_id,
            undone |-> FALSE])

\* undo_single, had the target been looked for before the undone flag
undo_single_target_first(dir, entries, index) ==
    IF index < 0 \/ index >= Len(entries)
    THEN [fs |-> dir, journal |-> entries, outcome |-> "Invalid index"]
    ELSE LET entry == entries[index + 1]
             new_p == entry.new_path
             orig_p == entry.original_path
         IN  IF ~exists(dir, new_p)
             THEN [fs |-> dir, journal |-> entries,
                   outcome |-> "File not found"]
             ELSE IF entry.undone
             THEN [fs |-> dir, journal |-> entries,
                   outcome |-> "Already undone"]
             ELSE IF exists(dir, orig_p)
             THEN [fs |-> dir, journal |-> entries,
                   outcome |-> "Original path already occupied"]
             ELSE [fs |-> move(dir, new_p, orig_p),
                   journal |-> [entries EXCEPT ![index + 1].undone = TRUE],
                   outcome |-> "success"]

\* undo_single(index), index counted from 0 as in the source; returns the
\* directory, the journal and the outcome
undo_single(dir, entries, index) ==
    IF index < 0 \/ index >= Len(entries)
    THEN [fs |-> dir, journal |-> entries, outcome |-> "Invalid index"]
    ELSE LET entry == entries[index + 1]
             new_p == entry.new_path
             orig_p == entry.original_path
         IN  IF entry.undone
             THEN [fs |-> dir, journal |-> entries,
                   outcome |-> "Already undone"]
             ELSE IF ~exists(dir, new_p)
             THEN [fs |-> dir, journal |-> entries,
                   outcome |-> "File not found"]
             ELSE IF exists(dir, orig_p)
             THEN [fs |-> dir, journal |-> entries,
                   outcome |-> "Original path already occupied"]
             ELSE [fs |-> move(dir, new_p, orig_p),
                   journal |-> [entries EXCEPT ![index + 1].undone = TRUE],
                   outcome |-> "success"]

\* undo_session_from, had the loop returned at the first failure
RECURSIVE undo_session_from_halting(_, _, _, _, _, _)
undo_session_from_halting(dir, entries, stale, session_id, i, results) ==
    IF i > Len(stale)
    THEN [fs |-> dir, journal |-> entries, results |-> results]
    ELSE IF stale[i].session_id = session_id /\ ~stale[i].undone
    THEN LET r == undo_single(dir, entries, i - 1)
         IN  IF r.outcome # "success"
             THEN [fs |-> r.fs, journal |-> r.journal,
                   results |-> Append(results, r.outcome)]
             ELSE undo_session_from_halting(r.fs, r.journal, stale,
                                            session_id, i + 1,
                                            Append(results, r.outcome))
    ELSE undo_session_from_halting(dir, entries, stale, session_id, i + 1,
                                   results)

\* the loop of undo_session from position i on; stale is the journal as
\* loaded before the loop, which the loop iterates over
RECURSIVE undo_session_from(_, _, _, _, _, _)
undo_session_from(dir, entries, stale, session_id, i, results) ==
    IF i > Len(stale)
    THEN [fs |-> dir, journal |-> entries, results |-> results]
    ELSE IF stale[i].session_id = session_id /\ ~stale[i].undone
    THEN LET r == undo_single(dir, entries, i - 1)
         IN  undo_session_from(r.fs, r.journal, stale, session_id, i + 1,
                               Append(results, r.outcome))
    ELSE undo_session_from(dir, entries, stale, session_id, i + 1, results)

undo_session(dir, entries, session_id) ==
    undo_session_from(dir, entries, entries, session_id, 1, << >>)

-----------------------------------------------------------------------------
(* Execute *)

\* the while loop of execute_renames: the first counter whose name is free
RECURSIVE first_free(_, _, _)
first_free(dir, nm, counter) ==
    IF exists(dir, Disambiguated(nm, counter))
    THEN first_free(dir, nm, counter + 1)
    ELSE Disambiguated(nm, counter)

\* resolve_collision, had the target not been looked at
resolve_collision_none(dir, original, new_path) == new_path

\* resolve_collision, had the counter not been advanced past taken names
resolve_collision_once(dir, original, new_path) ==
    IF exists(dir, new_path) /\ new_path # original
    THEN Disambiguated(new_path, 1)
    ELSE new_path

\* the path execute_renames moves the file to
resolve_collision(dir, original, new_path) ==
    IF exists(dir, new_path) /\ new_path # original
    THEN first_free(dir, new_path, 1)
    ELSE new_path

\* execute_item, had the journal been written before the move
execute_item_log_first(dir, entries, f, session_id, io) ==
    LET original == f.original_path
        new_path == resolve_collision(dir, original, f.new_name)
        logged == log_rename(entries, original, new_path, "unknown",
                             session_id)
    IN  IF ~exists(dir, original)
        THEN [fs |-> dir, journal |-> entries,
              result |-> [original |-> original, error |-> "File not found"]]
        ELSE IF io = "log_raises"
        THEN [fs |-> dir, journal |-> entries,
              result |-> [original |-> original, error |-> "log raised"]]
        ELSE IF io = "move_raises"
        THEN [fs |-> dir, journal |-> logged,
              result |-> [original |-> original, error |-> "move raised"]]
        ELSE [fs |-> move(dir, original, new_path),
              journal |-> logged,
              result |-> [original |-> original, new_path |-> new_path,
                          success |-> TRUE]]

\* the body of the loop of execute_renames for item f, whose I/O ends as io
\* says; returns the directory, the journal and the item's result
execute_item(dir, entries, f, session_id, io) ==
    LET original == f.original_path
        new_path == resolve_collision(dir, original, f.new_name)
    IN  IF ~exists(dir, original)
        THEN [fs |-> dir, journal |-> entries,
              result |-> [original |-> original, error |-> "File not found"]]
        ELSE IF io = "move_raises"
        THEN [fs |-> dir, journal |-> entries,
              result |-> [original |-> original, error |-> "move raised"]]
        ELSE IF io = "log_raises"
        THEN [fs |-> move(dir, original, new_path), journal |-> entries,
              result |-> [original |-> original, error |-> "log raised"]]
        ELSE [fs |-> move(dir, original, new_path),
              journal |-> log_rename(entries, original, new_path, "unknown",
                                     session_id),
              result |-> [original |-> original, new_path |-> new_path,
                          success |-> TRUE]]

-----------------------------------------------------------------------------
(* The requests of app.py *)

\* the waterfall is not running
WaterfallIdle ==
    /\ doc = [path |-> DocDir, doi |-> NoneVal, isbn |-> NoneVal,
              title_guess |-> NoTitle]
    /\ settings = [zotero_api_key |-> "", zotero_library_id |-> ""]
    /\ pc = "idle"
    /\ calls = << >>
    /\ net = << >>
    /\ resp = NoResponse
    /\ rets = << >>
    /\ result = NoRecord

\* the directory holds Paper.pdf and scan.pdf, and nothing has been renamed
InitialDirectory ==
    [nm \in Names |->
        IF nm.n # 0 THEN NoFile
        ELSE IF nm.stem = "Paper" THEN "f1" ELSE "f2"]

JournalInit ==
    /\ WaterfallIdle
    /\ fs = InitialDirectory
    /\ journal = << >>
    /\ faulted = FALSE
    /\ last = NoOp
    /\ batch = NoBatch
    /\ threads = [t \in Threads |-> IdleThread]
    /\ names = << >>

\* POST /execute, one turn of the loop of execute_renames: the next item of
\* a batch of session session_id. The loop carries nothing from one item to
\* the next but the directory and the journal, so a batch is a run of these
\* steps with one session_id. At most one I/O call raises in a behaviour.
ExecuteItem ==
    /\ Len(journal) < MaxJournal
    /\ \E f \in BatchItems, session_id \in SessionIds, io \in IoOutcomes :
          LET r == execute_item(fs, journal, f, session_id, io)
              raised == exists(fs, f.original_path) /\ io # "ok"
          IN  /\ raised => ~faulted
              /\ faulted' = (faulted \/ raised)
              /\ fs' = r.fs
              /\ journal' = r.journal
              /\ last' = [op |-> "execute_item", result |-> r.result]
    /\ UNCHANGED <<wvars, gvars, batch, threads>>

\* POST /undo with an index
UndoSingle ==
    /\ \E index \in -1..Len(journal) :
          LET r == undo_single(fs, journal, index)
          IN  /\ fs' = r.fs
              /\ journal' = r.journal
              /\ last' = [op |-> "undo_single", index |-> index,
                          outcome |-> r.outcome]
    /\ UNCHANGED <<faulted, wvars, gvars, batch, threads>>

\* POST /undo with a session id
UndoSession ==
    /\ \E session_id \in SessionIds :
          LET r == undo_session(fs, journal, session_id)
          IN  /\ fs' = r.fs
              /\ journal' = r.journal
              /\ last' = [op |-> "undo_session", session_id |-> session_id,
                          results |-> r.results]
    /\ UNCHANGED <<faulted, wvars, gvars, batch, threads>>

JournalNext ==
    \/ ExecuteItem
    \/ UndoSingle
    \/ UndoSession

JournalSpec == JournalInit /\ [][JournalNext]_vars

-----------------------------------------------------------------------------
(* POST /execute: a whole batch, with the attachment sync *)

\* an item names a file of the directory or a path where there is none yet
BatchOriginals ==
    {nm \in Names : nm.n = 0 \/ (nm.stem = "Paper" /\ nm.n = 1)}

\* f["original_path"], f["new_name"] and f["metadata"]["zotero_key"], ""
\* when the item has no such key
FileItems ==
    [original_path : BatchOriginals,
     new_name : ProposedNames,
     zotero_key : {"", "ZK1"}]

\* the files of a request: app.py refuses an empty list
Batches == SeqsUpTo(FileItems, MaxBatch) \ {<< >>}

\* how the requests of zotero_update_attachment end
\*   network_error : SESSION.get or SESSION.patch raises
\*   bad_status    : the children request is not answered with 200
\*   no_attachment : no child is a PDF attachment
\*   patch_refused : the PATCH is answered with neither 200 nor 204
\*   patch_ok      : the PATCH is answered with 200 or 204
SyncResponses ==
    {"network_error", "bad_status", "no_attachment", "patch_refused",
     "patch_ok"}

zotero_update_attachment(item_key, new_filename, s, r) ==
    IF ~HasZoteroCredentials(s) THEN FALSE
    ELSE CASE r = "network_error" -> FALSE
           [] r = "bad_status" -> FALSE
           [] r = "no_attachment" -> FALSE
           [] r = "patch_refused" -> FALSE
           [] r = "patch_ok" -> TRUE

\* execute_file, had a failed sync been reported as the item's failure
execute_file_sync_fatal(dir, entries, f, session_id, s, io, r) ==
    LET moved == execute_item(dir, entries, f, session_id, io)
        synced == /\ "success" \in DOMAIN moved.result
                  /\ f.zotero_key # ""
                  /\ s.zotero_api_key # ""
    IN  [fs |-> moved.fs,
         journal |-> moved.journal,
         result |->
            IF ~synced THEN moved.result
            ELSE IF zotero_update_attachment(f.zotero_key, f.new_name, s, r)
            THEN moved.result @@ [zotero_updated |-> TRUE]
            ELSE [original |-> f.original_path, error |-> "sync failed"],
         synced |-> synced]

\* the whole body of the loop of execute_renames for item f: the move and
\* the journal write, then the sync when the item has a key and the
\* settings an API key
execute_file(dir, entries, f, session_id, s, io, r) ==
    LET moved == execute_item(dir, entries, f, session_id, io)
        synced == /\ "success" \in DOMAIN moved.result
                  /\ f.zotero_key # ""
                  /\ s.zotero_api_key # ""
    IN  [fs |-> moved.fs,
         journal |-> moved.journal,
         result |->
            IF synced
            THEN moved.result @@
                 [zotero_updated |->
                    zotero_update_attachment(f.zotero_key, f.new_name, s, r)]
            ELSE moved.result,
         synced |-> synced]

BatchInit ==
    /\ doc = [path |-> DocDir, doi |-> NoneVal, isbn |-> NoneVal,
              title_guess |-> NoTitle]
    /\ settings \in Settings
    /\ pc = "idle"
    /\ calls = << >>
    /\ net = << >>
    /\ resp = NoResponse
    /\ rets = << >>
    /\ result = NoRecord
    /\ fs = InitialDirectory
    /\ journal = << >>
    /\ faulted = FALSE
    /\ last = NoOp
    /\ batch = NoBatch
    /\ threads = [t \in Threads |-> IdleThread]
    /\ names = << >>

\* execute() hands the files of the request to execute_renames
BatchStart ==
    /\ batch = NoBatch
    /\ \E files \in Batches, session_id \in SessionIds :
          batch' = [phase |-> "running", files |-> files,
                    session_id |-> session_id, results |-> << >>]
    /\ last' = [op |-> "execute"]
    /\ UNCHANGED <<fs, journal, faulted, threads, wvars, gvars>>

\* one turn of the loop: the next file of the batch
BatchFile ==
    /\ batch.phase = "running"
    /\ Len(batch.results) < Len(batch.files)
    /\ \E io \in IoOutcomes, r \in SyncResponses :
          LET f == batch.files[Len(batch.results) + 1]
              found == exists(fs, f.original_path)
              x == execute_file(fs, journal, f, batch.session_id, settings,
                                io, r)
          IN  /\ fs' = x.fs
              /\ journal' = x.journal
              /\ faulted' = (faulted \/ (found /\ io # "ok"))
              /\ batch' = [batch EXCEPT !.results = Append(@, x.result)]
              /\ last' = [op |-> "execute_file",
                          io |-> IF found THEN io ELSE "not_found",
                          sync |-> IF ~x.synced THEN "none"
                                   ELSE IF HasZoteroCredentials(settings)
                                   THEN r
                                   ELSE "no_credentials"]
    /\ UNCHANGED <<threads, wvars, gvars>>

\* BatchReturn, had the loop been left at the first item that failed
BatchReturn_on_error ==
    /\ batch.phase = "running"
    /\ \/ Len(batch.results) = Len(batch.files)
       \/ /\ batch.results # << >>
          /\ "error" \in DOMAIN batch.results[Len(batch.results)]
    /\ batch' = [batch EXCEPT !.phase = "returned"]
    /\ last' = [op |-> "execute_return"]
    /\ UNCHANGED <<fs, journal, faulted, threads, wvars, gvars>>

\* the loop is over: the results and the session id are returned
BatchReturn ==
    /\ batch.phase = "running"
    /\ Len(batch.results) = Len(batch.files)
    /\ batch' = [batch EXCEPT !.phase = "returned"]
    /\ last' = [op |-> "execute_return"]
    /\ UNCHANGED <<fs, journal, faulted, threads, wvars, gvars>>

\* POST /undo with the session id of the batch, once its results are back
BatchUndo ==
    /\ batch.phase = "returned"
    /\ LET r == undo_session(fs, journal, batch.session_id)
       IN  /\ fs' = r.fs
           /\ journal' = r.journal
           /\ last' = [op |-> "undo_session",
                       session_id |-> batch.session_id,
                       results |-> r.results]
    /\ batch' = [batch EXCEPT !.phase = "undone"]
    /\ UNCHANGED <<faulted, threads, wvars, gvars>>

BatchNext ==
    \/ BatchStart
    \/ BatchFile
    \/ BatchReturn
    \/ BatchUndo

BatchSpec == BatchInit /\ [][BatchNext]_vars

-----------------------------------------------------------------------------
(* Requests served side by side *)

\* The server hands each request to a thread of its own, and neither
\* app.py nor renamer.py takes a lock: the threads interleave at every
\* access to the directory and to the journal file. A thread serves
\* POST /execute with one file, or POST /undo with an index.

\* the session of the request a thread serves
SessionOf(t) == IF t = "t1" THEN "s1" ELSE "s2"

\* the threads that have moved a file and not yet written its entry
Appending == {t \in Threads : threads[t].at \in {"moved", "loaded"}}

\* execute_renames up to shutil.move: the file is at its new path
ThreadMove(t) ==
    /\ threads[t].at = "idle"
    /\ Len(journal) + Cardinality(Appending) < MaxJournal
    /\ \E f \in BatchItems :
          LET original == f.original_path
              new_path == resolve_collision(fs, original, f.new_name)
          IN  /\ exists(fs, original)
              /\ fs' = move(fs, original, new_path)
              /\ threads' = [threads EXCEPT ![t] =
                    [at |-> "moved", original |-> original,
                     new_path |-> new_path]]
    /\ UNCHANGED <<journal, faulted, last, batch, wvars, gvars>>

\* log_rename: entries = _load_log()
ThreadLoad(t) ==
    /\ threads[t].at = "moved"
    /\ threads' = [threads EXCEPT ![t] =
          [at |-> "loaded", original |-> threads[t].original,
           new_path |-> threads[t].new_path, entries |-> journal]]
    /\ UNCHANGED <<fs, journal, faulted, last, batch, wvars, gvars>>

\* log_rename: entries.append(...) and _save_log(entries)
ThreadSave(t) ==
    /\ threads[t].at = "loaded"
    /\ journal' = log_rename(threads[t].entries, threads[t].original,
                             threads[t].new_path, "unknown", SessionOf(t))
    /\ threads' = [threads EXCEPT ![t] = IdleThread]
    /\ UNCHANGED <<fs, faulted, last, batch, wvars, gvars>>

\* undo_single: entries = _load_log()
ThreadUndoLoad(t) ==
    /\ threads[t].at = "idle"
    /\ \E index \in 0..(Len(journal) - 1) :
          threads' = [threads EXCEPT ![t] =
              [at |-> "undo_loaded", index |-> index, entries |-> journal]]
    /\ UNCHANGED <<fs, journal, faulted, last, batch, wvars, gvars>>

\* undo_single: the checks, on the entries it loaded, and shutil.move
ThreadUndoMove(t) ==
    /\ threads[t].at = "undo_loaded"
    /\ LET r == undo_single(fs, threads[t].entries, threads[t].index)
       IN  /\ fs' = r.fs
           /\ threads' = [threads EXCEPT ![t] =
                 IF r.outcome = "success"
                 THEN [at |-> "undo_moved", index |-> threads[t].index,
                       entries |-> r.journal]
                 ELSE IdleThread]
    /\ UNCHANGED <<journal, faulted, last, batch, wvars, gvars>>

\* undo_single: _save_log(entries), the entry marked undone
ThreadUndoSave(t) ==
    /\ threads[t].at = "undo_moved"
    /\ journal' = threads[t].entries
    /\ threads' = [threads EXCEPT ![t] = IdleThread]
    /\ UNCHANGED <<fs, faulted, last, batch, wvars, gvars>>

ConcurrentNext ==
    \E t \in Threads :
        \/ ThreadMove(t)
        \/ ThreadLoad(t)
        \/ ThreadSave(t)
        \/ ThreadUndoLoad(t)
        \/ ThreadUndoMove(t)
        \/ ThreadUndoSave(t)

ConcurrentSpec == JournalInit /\ [][ConcurrentNext]_vars

-----------------------------------------------------------------------------
(* File name sanitization *)

\* A string is the sequence of its runs: [c |-> a character, k |-> how many
\* times in a row], no two neighbouring runs of the same character and no
\* empty run. The characters:
\*   "x", "f", "i" : letters
\*   " ", "\t"     : white space
\*   ":"           : one of the characters re.sub removes
\*   "U+0301"      : COMBINING ACUTE ACCENT, combining class 230
\*   "U+0323"      : COMBINING DOT BELOW, combining class 220
\*   "U+FB01"      : LATIN SMALL LIGATURE FI, NFKD "f" "i"
IllegalChars == {"<", ">", ":", "\"", "/", "\\", "|", "?", "*"}
WhiteSpace == {" ", "\t"}

\* the canonical combining class of a character
CombiningClass(c) ==
    CASE c = "U+0301" -> 230
      [] c = "U+0323" -> 220
      [] OTHER -> 0

\* the runs a name is drawn from; 199 and 200 reach the length limit
NameRuns ==
    {[c |-> "x", k |-> n] : n \in {1, 199, 200}}
        \cup {[c |-> " ", k |-> n] : n \in {1, 2}}
        \cup {[c |-> ch, k |-> 1] :
                ch \in {"\t", ":", "U+0301", "U+0323", "U+FB01"}}

\* neighbouring runs of one character joined, empty runs dropped
RECURSIVE Runs(_)
Runs(s) ==
    IF s = << >> THEN << >>
    ELSE LET rest == Runs(Tail(s))
             h == Head(s)
         IN  IF h.k = 0 THEN rest
             ELSE IF rest # << >> /\ Head(rest).c = h.c
             THEN <<[c |-> h.c, k |-> h.k + Head(rest).k]>> \o Tail(rest)
             ELSE <<h>> \o rest

NameInputs == {Runs(s) : s \in SeqsUpTo(NameRuns, MaxNameRuns)}

\* len(name)
RECURSIVE len(_)
len(s) == IF s = << >> THEN 0 ELSE Head(s).k + len(Tail(s))

\* name[:n]
RECURSIVE prefix(_, _)
prefix(s, n) ==
    IF s = << >> \/ n <= 0 THEN << >>
    ELSE IF Head(s).k >= n THEN <<[c |-> Head(s).c, k |-> n]>>
    ELSE <<Head(s)>> \o prefix(Tail(s), n - Head(s).k)

\* the compatibility decomposition of each character
RECURSIVE decompose(_)
decompose(s) ==
    IF s = << >> THEN << >>
    ELSE LET h == Head(s)
         IN  IF h.k = 0 THEN decompose(Tail(s))
             ELSE IF h.c = "U+FB01"
             THEN <<[c |-> "f", k |-> 1], [c |-> "i", k |-> 1]>>
                      \o decompose(<<[c |-> h.c, k |-> h.k - 1]>> \o Tail(s))
             ELSE <<h>> \o decompose(Tail(s))

\* the canonical ordering: within each stretch of combining marks, the
\* marks sorted by combining class, 220 before 230; below and above are
\* the marks of the stretch read so far
RECURSIVE reorder(_, _, _)
reorder(s, below, above) ==
    LET marks == <<[c |-> "U+0323", k |-> below],
                   [c |-> "U+0301", k |-> above]>>
    IN  IF s = << >> THEN marks
        ELSE IF CombiningClass(Head(s).c) = 220
        THEN reorder(Tail(s), below + Head(s).k, above)
        ELSE IF CombiningClass(Head(s).c) = 230
        THEN reorder(Tail(s), below, above + Head(s).k)
        ELSE marks \o <<Head(s)>> \o reorder(Tail(s), 0, 0)

\* unicodedata.normalize("NFKD", name)
normalize_NFKD(s) == Runs(reorder(decompose(s), 0, 0))

\* re.sub(r'[<>:"/\\|?*]', '', name)
remove_illegal(s) == Runs(SelectSeq(s, LAMBDA r : r.c \notin IllegalChars))

\* re.sub(r'\s+', ' ', name)
RECURSIVE collapse(_)
collapse(s) ==
    IF s = << >> THEN << >>
    ELSE LET rest == collapse(Tail(s))
         IN  IF Head(s).c \in WhiteSpace
             THEN IF rest # << >> /\ Head(rest).c = " "
                  THEN rest
                  ELSE <<[c |-> " ", k |-> 1]>> \o rest
             ELSE <<Head(s)>> \o rest

\* str.strip()
strip(s) ==
    LET inner == {i \in DOMAIN s : s[i].c \notin WhiteSpace}
    IN  IF inner = {} THEN << >>
        ELSE SubSeq(s, CHOOSE i \in inner : \A j \in inner : i <= j,
                       CHOOSE i \in inner : \A j \in inner : j <= i)

\* name.rsplit(' ', 1)[0]
rsplit_head(s) ==
    LET spaces == {i \in DOMAIN s : s[i].c = " "}
    IN  IF spaces = {} THEN s
        ELSE LET i == CHOOSE x \in spaces : \A y \in spaces : y <= x
             IN  Runs(SubSeq(s, 1, i - 1)
                        \o <<[c |-> " ", k |-> s[i].k - 1]>>)

\* the length _sanitize_filename truncates to
MaxNameLength == 200

_sanitize_filename(name) ==
    LET normalized == normalize_NFKD(name)
        legal == remove_illegal(normalized)
        collapsed == strip(collapse(legal))
    IN  IF len(collapsed) > MaxNameLength
        THEN rsplit_head(prefix(collapsed, MaxNameLength))
        ELSE collapsed

SanitizeInit ==
    /\ WaterfallIdle
    /\ fs = InitialDirectory
    /\ journal = << >>
    /\ faulted = FALSE
    /\ last = NoOp
    /\ batch = NoBatch
    /\ threads = [t \in Threads |-> IdleThread]
    /\ names \in {<<x>> : x \in NameInputs}

\* _sanitize_filename applied to the name, then to its own result
Sanitize ==
    /\ Len(names) < 3
    /\ names' = Append(names, _sanitize_filename(names[Len(names)]))
    /\ UNCHANGED <<wvars, jvars>>

SanitizeSpec == SanitizeInit /\ [][Sanitize]_vars

-----------------------------------------------------------------------------
(* resolve_metadata, one action per step of the waterfall *)

WaterfallInit ==
    /\ doc \in Docs
    /\ settings \in Settings
    /\ pc = "doi"
    /\ calls = << >>
    /\ net = << >>
    /\ resp = NoResponse
    /\ rets = << >>
    /\ result = NoRecord
    /\ fs = [n \in Names |-> NoFile]
    /\ journal = << >>
    /\ faulted = FALSE
    /\ last = NoOp
    /\ batch = NoBatch
    /\ threads = [t \in Threads |-> IdleThread]
    /\ names = << >>

\* the step is skipped: its identifier or the title guess is absent
Skip(next) ==
    /\ pc' = next
    /\ UNCHANGED <<doc, settings, calls, net, resp, rets, result, jvars, gvars>>

\* a client was called with response r and returned m; it is the terminal
\* record when usable, else the waterfall goes on at next
Called(client, requests, r, m, usable, final, next) ==
    /\ calls' = Append(calls, client)
    /\ net' = net \o requests
    /\ resp' = r
    /\ rets' = Append(rets, m)
    /\ IF usable
       THEN result' = final /\ pc' = "done"
       ELSE result' = result /\ pc' = next
    /\ UNCHANGED <<doc, settings, jvars, gvars>>

\* DoiLookup, had the early return after a match been left out
DoiLookup_no_return ==
    /\ pc = "doi"
    /\ IF doc.doi # NoneVal
       THEN \E r \in DoiResponses :
               Called("crossref_lookup_doi", <<"crossref">>, r,
                      crossref_lookup_doi(r), FALSE, NoRecord, "isbn_primary")
       ELSE Skip("isbn_primary")

\* 1. DOI lookup via CrossRef
DoiLookup ==
    /\ pc = "doi"
    /\ IF doc.doi # NoneVal
       THEN \E r \in DoiResponses :
               LET m == crossref_lookup_doi(r)
               IN  Called("crossref_lookup_doi", <<"crossref">>, r, m,
                          m # NoRecord,
                          IF m # NoRecord
                          THEN [m EXCEPT !.confidence = ExactConfidence]
                          ELSE m,
                          "isbn_primary")
       ELSE Skip("isbn_primary")

\* IsbnPrimary, had isbn_lookup asked Google Books first
IsbnPrimary_swapped ==
    /\ pc = "isbn_primary"
    /\ IF doc.isbn # NoneVal
       THEN \E r \in LookupResponses :
               LET m == _google_books_isbn(doc.isbn, r)
               IN  Called("_google_books_isbn", <<"google_books">>, r, m,
                          m # NoRecord, m, "title_search")
       ELSE Skip("title_search")

\* 2. isbn_lookup, first stage: Open Library
IsbnPrimary ==
    /\ pc = "isbn_primary"
    /\ IF doc.isbn # NoneVal
       THEN \E r \in LookupResponses :
               LET m == _open_library_isbn(doc.isbn, r)
               IN  Called("_open_library_isbn", <<"open_library">>, r, m,
                          m # NoRecord, m, "isbn_secondary")
       ELSE Skip("title_search")

\* 2. isbn_lookup, second stage: Google Books
IsbnSecondary ==
    /\ pc = "isbn_secondary"
    /\ \E r \in LookupResponses :
          LET m == _google_books_isbn(doc.isbn, r)
          IN  Called("_google_books_isbn", <<"google_books">>, r, m,
                     m # NoRecord, m, "title_search")

\* TitleSearch, had the threshold test been strict
TitleSearch_strict ==
    /\ pc = "title_search"
    /\ IF doc.title_guess # NoTitle
       THEN \E r \in SearchResponses :
               LET m == crossref_search_title(doc.title_guess, r)
               IN  Called("crossref_search_title", <<"crossref">>, r, m,
                          m # NoRecord /\ m.confidence > AcceptThreshold,
                          m, "fallback_search")
       ELSE Skip("fallback_search")

\* 3. CrossRef free-text search
TitleSearch ==
    /\ pc = "title_search"
    /\ IF doc.title_guess # NoTitle
       THEN \E r \in SearchResponses :
               LET m == crossref_search_title(doc.title_guess, r)
               IN  Called("crossref_search_title", <<"crossref">>, r, m,
                          m # NoRecord /\ m.confidence >= AcceptThreshold,
                          m, "fallback_search")
       ELSE Skip("fallback_search")

\* 4. Semantic Scholar search
FallbackSearch ==
    /\ pc = "fallback_search"
    /\ IF doc.title_guess # NoTitle
       THEN \E r \in LookupResponses :
               LET m == semantic_scholar_search(doc.title_guess, r)
               IN  Called("semantic_scholar_search", <<"semantic_scholar">>,
                          r, m, m # NoRecord, m, "zotero_search")
       ELSE Skip("zotero_search")

\* ZoteroSearch, had the request been sent whatever the credentials
ZoteroSearch_always_request ==
    /\ pc = "zotero_search"
    /\ IF doc.title_guess # NoTitle
       THEN \E r \in LookupResponses :
               LET m == zotero_search(doc.title_guess, settings, r)
               IN  Called("zotero_search", <<"zotero">>, r, m,
                          m # NoRecord, m, "manual_review")
       ELSE Skip("manual_review")

\* 5. Zotero fallback
ZoteroSearch ==
    /\ pc = "zotero_search"
    /\ IF doc.title_guess # NoTitle
       THEN IF HasZoteroCredentials(settings)
            THEN \E r \in LookupResponses :
                    LET m == zotero_search(doc.title_guess, settings, r)
                    IN  Called("zotero_search", <<"zotero">>, r, m,
                               m # NoRecord, m, "manual_review")
            ELSE Called("zotero_search", << >>, NoResponse,
                        zotero_search(doc.title_guess, settings, NoResponse),
                        FALSE, NoRecord, "manual_review")
       ELSE Skip("manual_review")

\* 6. Manual review needed
ManualReview ==
    /\ pc = "manual_review"
    /\ result' = manual_review_record(doc)
    /\ pc' = "done"
    /\ UNCHANGED <<doc, settings, calls, net, resp, rets, jvars, gvars>>

WaterfallNext ==
    \/ DoiLookup
    \/ IsbnPrimary
    \/ IsbnSecondary
    \/ TitleSearch
    \/ FallbackSearch
    \/ ZoteroSearch
    \/ ManualReview

WaterfallSpec == WaterfallInit /\ [][WaterfallNext]_vars

-----------------------------------------------------------------------------
(* Properties of the resolution waterfall *)

Sources ==
    {"crossref", "semantic_scholar", "open_library", "google_books",
     "zotero", "manual_review"}

\* the clients in the order the design fixes
StepOrder ==
    <<"crossref_lookup_doi", "_open_library_isbn", "_google_books_isbn",
      "crossref_search_title", "semantic_scholar_search", "zotero_search">>

StepIndex(c) == CHOOSE i \in DOMAIN StepOrder : StepOrder[i] = c

PcOrder ==
    <<"doi", "isbn_primary", "isbn_secondary", "title_search",
      "fallback_search", "zotero_search", "manual_review", "done">>

PcRank(p) == CHOOSE i \in DOMAIN PcOrder : PcOrder[i] = p

Last(s) == s[Len(s)]

\* the i-th call gave the waterfall nothing it accepts
Unusable(i) ==
    \/ rets[i] = NoRecord
    \/ /\ calls[i] = "crossref_search_title"
       /\ rets[i].confidence < AcceptThreshold

\* the file name of the document without its ".pdf", by construction of
\* DocPaths
StemOf(path) == SubSeq(path, Len(DocDir) + 1, Len(path) - 2)

\* (query words also in the result title) / (query words), as word-level
\* sets compared case-insensitively, is c hundredths up to the rounding of
\* the quotient to two decimals
IsOverlapRatio(c, query, title) ==
    LET q == {Lower(query[i]) : i \in DOMAIN query}
        k == Cardinality({w \in q : \E j \in DOMAIN title : Lower(title[j]) = w})
        n == Cardinality(q)
        d == 100 * k - c * n
    IN  2 * d <= n /\ -2 * d <= n

\* C1: every run of the waterfall ends, and ends with exactly one record
\* whose source is one of the six sources: until the record is returned a
\* step is always possible, every step moves the waterfall forward in its
\* fixed sequence of positions, and a returned record is never replaced.
C1_ExactlyOneRecord ==
    /\ [](pc = "done" => result # NoRecord /\ result.source \in Sources)
    /\ [](pc # "done" => result = NoRecord /\ ENABLED WaterfallNext)
    /\ [][PcRank(pc') > PcRank(pc)]_vars

C1_Witness ==
    /\ pc = "done"
    /\ Len(calls) = 6
    /\ resp.kind = "timeout"
    /\ result.source = "manual_review"

\* C2: when a DOI was extracted and the DOI-exact lookup returned a record,
\* that record is the result, with source crossref and confidence 1.0, and
\* the DOI lookup is the only client invoked and the only request issued.
C2_DoiShortCircuit ==
    (calls # << >> /\ calls[1] = "crossref_lookup_doi" /\ rets[1] # NoRecord)
        => /\ pc = "done"
           /\ result = [rets[1] EXCEPT !.confidence = ExactConfidence]
           /\ result.source = "crossref"
           /\ result.confidence = 100
           /\ calls = <<"crossref_lookup_doi">>
           /\ net = <<"crossref">>

C2_Witness ==
    /\ pc = "done"
    /\ calls = <<"crossref_lookup_doi">>
    /\ resp.kind = "match"
    /\ doc.isbn # NoneVal
    /\ doc.title_guess # NoTitle
    /\ HasZoteroCredentials(settings)

\* C3: the clients are invoked in the fixed order, each at most once; a
\* client is invoked only if every earlier invoked client gave nothing
\* usable; the secondary ISBN provider is invoked only right after the
\* primary one returned no match.
C3_FixedOrder ==
    /\ Len(rets) = Len(calls)
    /\ \A i \in DOMAIN calls : calls[i] \in {StepOrder[k] : k \in DOMAIN StepOrder}
    /\ \A i, j \in DOMAIN calls :
          i < j => StepIndex(calls[i]) < StepIndex(calls[j])
    /\ \A i \in DOMAIN calls : i < Len(calls) => Unusable(i)
    /\ \A j \in DOMAIN calls :
          calls[j] = "_google_books_isbn"
              => j > 1 /\ calls[j - 1] = "_open_library_isbn"
                       /\ rets[j - 1] = NoRecord

C3_Witness ==
    /\ calls = StepOrder
    /\ net = <<"crossref", "open_library", "google_books", "crossref",
               "semantic_scholar", "zotero">>

\* C4: a record returned by the title free-text search is the result of the
\* waterfall exactly if its confidence is at least 0.5; below 0.5 it is
\* discarded and the fallback text search is the next client invoked.
C4_ThresholdEnforced ==
    \A i \in DOMAIN calls :
        (calls[i] = "crossref_search_title" /\ rets[i] # NoRecord)
            => /\ rets[i].confidence >= 50
                    <=> (pc = "done" /\ Len(calls) = i /\ result = rets[i])
               /\ rets[i].confidence < 50
                    => /\ result # rets[i]
                       /\ \/ pc = "fallback_search" /\ Len(calls) = i
                          \/ /\ Len(calls) > i
                             /\ calls[i + 1] = "semantic_scholar_search"

\* a title search result of confidence exactly 0.5 was accepted
C4_Witness ==
    /\ pc = "done"
    /\ Last(calls) = "crossref_search_title"
    /\ result.confidence = 50
    /\ result.source = "crossref"

\* a title search result of confidence 0.33 was discarded
C4_WitnessBelow ==
    /\ Len(calls) > 1
    /\ calls[Len(calls) - 1] = "crossref_search_title"
    /\ rets[Len(calls) - 1] # NoRecord
    /\ rets[Len(calls) - 1].confidence = 33
    /\ Last(calls) = "semantic_scholar_search"

\* C5: whatever request of whatever client fails (network error, timeout,
\* non-success status, malformed response), the client returns no-match.
C5_FailuresAreNoMatch ==
    (calls # << >> /\ resp.kind \in FailureKinds) => Last(rets) = NoRecord

\* C6 as claimed: the manual_review record has the title guess, or the file
\* name without its extension, as title, confidence 0.0, and every other
\* field empty.
C6_ManualReviewAllEmpty ==
    (pc = "done" /\ \A i \in DOMAIN calls : Unusable(i))
        => /\ result.source = "manual_review"
           /\ result.title = IF doc.title_guess # NoTitle
                             THEN doc.title_guess ELSE StemOf(doc.path)
           /\ result.confidence = 0
           /\ result.authors = << >>
           /\ result.year = ""
           /\ result.journal = ""
           /\ result.publisher = ""
           /\ result.doi \in {"", NoneVal}

\* C6 amended: as claimed, but the doi field is the extracted DOI, empty
\* only when no DOI was extracted.
C6_ManualReviewKeepsDoi ==
    (pc = "done" /\ \A i \in DOMAIN calls : Unusable(i))
        => /\ result.source = "manual_review"
           /\ result.title = IF doc.title_guess # NoTitle
                             THEN doc.title_guess ELSE StemOf(doc.path)
           /\ result.confidence = 0
           /\ result.authors = << >>
           /\ result.year = ""
           /\ result.journal = ""
           /\ result.publisher = ""
           /\ result.doi = doc.doi

\* no title guess, a DOI and an ISBN whose lookups found nothing
C6_Witness ==
    /\ pc = "done"
    /\ result.source = "manual_review"
    /\ doc.title_guess = NoTitle
    /\ doc.doi # NoneVal
    /\ doc.isbn # NoneVal
    /\ Len(calls) = 3
    /\ result.title = <<".", "a", ".", "b">>

\* C7: the confidence of the returned record is in [0.0, 1.0] and is the
\* one its source fixes; for a title search match it is the overlap ratio
\* of the title guess and the matched title, at least 0.5; it is 0.0
\* exactly for manual_review.
C7_ConfidenceMatchesSource ==
    pc = "done"
        => /\ result.confidence \in 0..100
           /\ result.confidence = 0 <=> result.source = "manual_review"
           /\ result.source = "manual_review" => \A i \in DOMAIN calls : Unusable(i)
           /\ result.source # "manual_review" =>
                CASE Last(calls) = "crossref_lookup_doi" ->
                        result.source = "crossref" /\ result.confidence = 100
                  [] Last(calls) = "_open_library_isbn" ->
                        result.source = "open_library" /\ result.confidence = 90
                  [] Last(calls) = "_google_books_isbn" ->
                        result.source = "google_books" /\ result.confidence = 85
                  [] Last(calls) = "crossref_search_title" ->
                        /\ result.source = "crossref"
                        /\ result.confidence >= 50
                        /\ IsOverlapRatio(result.confidence, doc.title_guess,
                                          result.title)
                  [] Last(calls) = "semantic_scholar_search" ->
                        result.source = "semantic_scholar" /\ result.confidence = 70
                  [] Last(calls) = "zotero_search" ->
                        result.source = "zotero" /\ result.confidence = 95

\* C8: the confidence the title free-text search returns with the top-ranked
\* item is (query words also in the item's title) / (query words), whatever
\* the query and the item's title.
C8_ConfidenceIsOverlap ==
    (calls # << >> /\ Last(calls) = "crossref_search_title"
                   /\ resp.kind = "match")
        => /\ Last(rets) # NoRecord
           /\ Last(rets).title = resp.item.title
           /\ IsOverlapRatio(Last(rets).confidence, doc.title_guess,
                             resp.item.title)

-----------------------------------------------------------------------------
(* Properties of the undo journal *)

\* the step taken is an undo_single request
IsUndoSingleStep == last'.op = "undo_single" /\ last' # last

\* the last step renamed a file and appended the last entry of the journal
JustRenamed ==
    /\ last.op = "execute_item"
    /\ "success" \in DOMAIN last.result
    /\ journal # << >>

\* C9: undoing a rename right after it, by its index, succeeds, puts the
\* file back at its original path and away from the new one, and marks the
\* entry undone; undoing the same index once more fails with "Already
\* undone" and changes nothing. The rename may be one to the file's own
\* name.
C9_UndoRoundTrip ==
    [][/\ (JustRenamed /\ IsUndoSingleStep /\ last'.index = Len(journal) - 1)
            => LET entry == journal[Len(journal)]
                   P == entry.original_path
                   Q == entry.new_path
               IN  /\ last'.outcome = "success"
                   /\ fs'[P] = fs[Q]
                   /\ fs'[P] # NoFile
                   /\ P # Q => fs'[Q] = NoFile
                   /\ journal'[Len(journal)].undone
       /\ (/\ last.op = "undo_single"
           /\ last.outcome = "success"
           /\ IsUndoSingleStep
           /\ last'.index = last.index)
            => /\ last'.outcome = "Already undone"
               /\ fs' = fs
               /\ journal' = journal]_vars

-----------------------------------------------------------------------------
(* Properties of the journal under execute and undo *)

\* the step taken handled one item of a batch
IsExecuteStep == last'.op = "execute_item"

\* the step taken is an undo_session request
IsUndoSessionStep == last'.op = "undo_session"

\* C11: the journal never gets shorter; an entry keeps every field but its
\* undone flag, at its index, for ever; the undone flag only goes from
\* false to true, and only in an undo step.
C11_AppendOnly ==
    [][/\ Len(journal') >= Len(journal)
       /\ \A i \in DOMAIN journal :
             /\ [journal'[i] EXCEPT !.undone = FALSE]
                    = [journal[i] EXCEPT !.undone = FALSE]
             /\ journal[i].undone => journal'[i].undone
             /\ journal'[i].undone # journal[i].undone
                    => last'.op \in {"undo_single", "undo_session"}
       /\ Len(journal') > Len(journal)
             => /\ Len(journal') = Len(journal) + 1
                /\ ~journal'[Len(journal')].undone
                /\ IsExecuteStep]_vars

\* an undone entry kept its place after a later rename was appended
C11_Witness ==
    /\ Len(journal) = 2
    /\ journal[1].undone
    /\ ~journal[2].undone
    /\ last.op = "execute_item"

\* C12: no two entries that are not undone have the same new_path, entries
\* whose new_path was disambiguated when they were written set aside.
C12_DistinctNewPaths ==
    \A i, j \in DOMAIN journal :
        (/\ i < j
         /\ ~journal[i].undone /\ ~journal[j].undone
         /\ journal[i].new_path.n = 0 /\ journal[j].new_path.n = 0)
            => journal[i].new_path # journal[j].new_path

\* the entries of session_id that are not undone, by index
Matching(entries, session_id) ==
    {i \in DOMAIN entries :
        entries[i].session_id = session_id /\ ~entries[i].undone}

\* undo_single applied to the entries of todo, lowest index first, each on
\* what the one before left
RECURSIVE UndoInOrder(_, _, _, _)
UndoInOrder(dir, entries, todo, results) ==
    IF todo = {}
    THEN [fs |-> dir, journal |-> entries, results |-> results]
    ELSE LET i == CHOOSE x \in todo : \A y \in todo : x <= y
             r == undo_single(dir, entries, i - 1)
         IN  UndoInOrder(r.fs, r.journal, todo \ {i},
                         Append(results, r.outcome))

C14_LowestFreeName ==
    [][(IsExecuteStep /\ Len(journal') > Len(journal)) =>
        LET entry == journal'[Len(journal')]
            P == entry.original_path
            Q == entry.new_path
            N == [Q EXCEPT !.n = 0]
        IN  /\ last'.result.new_path = Q
            /\ IF fs[N] = NoFile \/ N = P
               THEN Q = N
               ELSE /\ Q.n >= 1
                    /\ fs[Q] = NoFile
                    /\ \A k \in 1..(Q.n - 1) : fs[[N EXCEPT !.n = k]] # NoFile
            /\ fs'[Q] = fs[P]]_vars

\* two files renamed to Paper.pdf by one session are Paper.pdf and
\* Paper (1).pdf, in that order
C14_Witness ==
    /\ Len(journal) = 2
    /\ journal[1].session_id = journal[2].session_id
    /\ journal[1].new_path = [stem |-> "Paper", n |-> 0, ext |-> ".pdf"]
    /\ journal[2].new_path = [stem |-> "Paper", n |-> 1, ext |-> ".pdf"]
    /\ journal[1].original_path # journal[2].original_path
    /\ ~journal[1].undone /\ ~journal[2].undone
    /\ fs[journal[1].new_path] = "f1"
    /\ fs[journal[2].new_path] = "f2"

\* a name was taken together with its first disambiguation
C14_WitnessSecondCounter ==
    /\ journal # << >>
    /\ journal[Len(journal)].new_path.n = 2
    /\ last.op = "execute_item"

\* C16: when an entry is appended, the file that was at its original_path
\* is at its new_path, and the step that appended it reports a success.
C16_AppendAfterMove ==
    [][Len(journal') > Len(journal) =>
        LET entry == journal'[Len(journal')]
        IN  /\ fs[entry.original_path] # NoFile
            /\ fs'[entry.new_path] = fs[entry.original_path]
            /\ IsExecuteStep
            /\ "success" \in DOMAIN last'.result
            /\ last'.result.new_path = entry.new_path]_vars

\* an entry was appended by a rename that changed the path, after a move
\* that raised
C16_Witness ==
    /\ journal # << >>
    /\ faulted
    /\ last.op = "execute_item"
    /\ "success" \in DOMAIN last.result
    /\ last.result.new_path # last.result.original
    /\ fs[last.result.new_path] # NoFile

\* C17: handling an item changes the directory only if it appends exactly
\* one entry, not undone, with the item's paths, and it appends one exactly
\* if it reports a success.
C17_MovedIffLogged ==
    [][IsExecuteStep =>
        LET appended == journal' # journal
            reported == "success" \in DOMAIN last'.result
        IN  /\ fs' # fs => appended
            /\ appended <=> reported
            /\ appended =>
                  /\ Len(journal') = Len(journal) + 1
                  /\ SubSeq(journal', 1, Len(journal)) = journal
                  /\ ~journal'[Len(journal')].undone
                  /\ journal'[Len(journal')].original_path
                        = last'.result.original
                  /\ journal'[Len(journal')].new_path
                        = last'.result.new_path]_vars

-----------------------------------------------------------------------------
(* Properties of a batch *)

\* the step taken is one turn of the loop of execute_renames
IsBatchFileStep == batch.phase = "running" /\ batch'.phase = "running"

\* C15: the results are one per file, in the order of the files; a file
\* whose original is missing is reported as not found and leaves the
\* directory and the journal alone; a move that fails is reported for its
\* file only; while files remain the next one is handled, and the results
\* are returned only when every file has one.
C15_BatchIsolation ==
    /\ [](batch.phase # "idle" =>
            /\ Len(batch.results) <= Len(batch.files)
            /\ \A k \in DOMAIN batch.results :
                  batch.results[k].original = batch.files[k].original_path)
    /\ [](batch.phase = "returned" => Len(batch.results) = Len(batch.files))
    /\ []((batch.phase = "running" /\ Len(batch.results) < Len(batch.files))
            => ENABLED BatchFile)
    /\ [][IsBatchFileStep =>
            LET k == Len(batch.results) + 1
                f == batch.files[k]
                res == batch'.results[k]
            IN  /\ batch'.files = batch.files
                /\ Len(batch'.results) = k
                /\ SubSeq(batch'.results, 1, k - 1) = batch.results
                /\ fs[f.original_path] = NoFile
                      => /\ res = [original |-> f.original_path,
                                   error |-> "File not found"]
                         /\ fs' = fs
                         /\ journal' = journal
                /\ last'.io = "move_raises"
                      => /\ "error" \in DOMAIN res
                         /\ "success" \notin DOMAIN res
                         /\ fs' = fs
                         /\ journal' = journal]_vars

\* the move of the first file failed and the second file was renamed
C15_Witness ==
    /\ batch.phase = "returned"
    /\ Len(batch.results) = 2
    /\ "error" \in DOMAIN batch.results[1]
    /\ batch.results[1].error = "move raised"
    /\ "success" \in DOMAIN batch.results[2]
    /\ Len(journal) = 1

\* a missing file was reported and the file after it renamed
C15_WitnessNotFound ==
    /\ batch.phase = "returned"
    /\ Len(batch.results) = 2
    /\ "error" \in DOMAIN batch.results[1]
    /\ batch.results[1].error = "File not found"
    /\ "success" \in DOMAIN batch.results[2]

\* C20: the sync is attempted only in a turn whose move and journal append
\* succeeded; however it ends, the file is reported as a success with its
\* new path, its entry is in the journal, and the outcome of the sync is
\* the zotero_updated flag of the result and nothing else.
C20_SyncIsBestEffort ==
    [][IsBatchFileStep =>
        LET k == Len(batch.results) + 1
            f == batch.files[k]
            res == batch'.results[k]
            attempted == last'.sync # "none"
        IN  /\ attempted =>
                  /\ f.zotero_key # ""
                  /\ fs[f.original_path] # NoFile
                  /\ Len(journal') = Len(journal) + 1
                  /\ journal'[Len(journal')].original_path = f.original_path
                  /\ ~journal'[Len(journal')].undone
                  /\ fs'[journal'[Len(journal')].new_path]
                        = fs[f.original_path]
                  /\ "error" \notin DOMAIN res
                  /\ "success" \in DOMAIN res
                  /\ res.success
                  /\ res.new_path = journal'[Len(journal')].new_path
                  /\ "zotero_updated" \in DOMAIN res
                  /\ res.zotero_updated = (last'.sync = "patch_ok")
            /\ ~attempted => "zotero_updated" \notin DOMAIN res]_vars

\* the sync of a renamed file failed on the network
C20_Witness ==
    /\ last.op = "execute_file"
    /\ last.sync = "network_error"
    /\ batch.results # << >>
    /\ "success" \in DOMAIN batch.results[Len(batch.results)]
    /\ ~batch.results[Len(batch.results)].zotero_updated
    /\ journal # << >>

-----------------------------------------------------------------------------
(* Properties of requests served side by side *)

\* C18: the read-modify-write cycles of two requests never interleave: a
\* thread writes the journal only if the journal is still the one it
\* loaded, so that a write loses neither an entry nor an undone flag that
\* another request has written.
C18_NoLostUpdate ==
    [][/\ \A t \in Threads :
             (/\ threads[t].at \in {"loaded", "undo_moved"}
              /\ threads'[t].at = "idle")
                => \/ threads[t].at = "undo_moved"
                      /\ Len(threads[t].entries) = Len(journal)
                      /\ \A i \in DOMAIN journal :
                            journal[i].undone => threads[t].entries[i].undone
                   \/ threads[t].at = "loaded"
                      /\ threads[t].entries = journal
       /\ Len(journal') >= Len(journal)
       /\ \A i \in DOMAIN journal :
             /\ [journal'[i] EXCEPT !.undone = FALSE]
                    = [journal[i] EXCEPT !.undone = FALSE]
             /\ journal[i].undone => journal'[i].undone]_vars

-----------------------------------------------------------------------------
(* Properties of file name sanitization *)

\* C19: sanitizing a sanitized name gives the same name again.
C19_SanitizeIdempotent ==
    Len(names) = 3 => names[3] = names[2]

-----------------------------------------------------------------------------
(* Properties of the personal-library search *)

\* C21: without the API key or without the library id, no request is ever
\* sent to the personal library, the search returns no match, and the
\* waterfall goes on to the manual_review record, which it returns.
C21_NoCredentialsNoCall ==
    ~HasZoteroCredentials(settings) =>
        /\ \A j \in DOMAIN net : net[j] # "zotero"
        /\ \A i \in DOMAIN calls :
              calls[i] = "zotero_search" =>
                  /\ rets[i] = NoRecord
                  /\ i = Len(calls)
                  /\ Len(net) = Len(calls) - 1
                  /\ pc \in {"manual_review", "done"}
                  /\ pc = "manual_review" => ENABLED ManualReview
                  /\ pc = "done" => /\ result # NoRecord
                                    /\ result.source = "manual_review"

\* the library id alone is missing, every other provider was asked first
C21_Witness ==
    /\ settings.zotero_api_key # ""
    /\ settings.zotero_library_id = ""
    /\ pc = "done"
    /\ Len(calls) = 6
    /\ Last(calls) = "zotero_search"
    /\ Len(net) = 5
    /\ result.source = "manual_review"

-----------------------------------------------------------------------------
(* Properties of the directory *)

\* the paths at which the file of content c is
PathsOf(c) == {p \in Names : fs[p] = c}

\* C22: an item of execute or an undo_single that changes the directory
\* moves one file to a path that was free, and leaves every other path
\* alone; and each file is at exactly one path, whatever was renamed and
\* undone, by index or by session.
C22_NoFileLost ==
    /\ [](\A c \in Contents : Cardinality(PathsOf(c)) = 1)
    /\ [][(fs' # fs /\ last'.op \in {"execute_item", "undo_single"}) =>
            \E src, dst \in Names :
                /\ src # dst
                /\ fs[src] # NoFile
                /\ fs[dst] = NoFile
                /\ fs' = [fs EXCEPT ![dst] = fs[src], ![src] = NoFile]]_vars

\* a rename was given a disambiguated name, and an undo was refused because
\* another file is at the original path
C22_Witness ==
    /\ last.op = "undo_single"
    /\ last.outcome = "Original path already occupied"
    /\ \E p \in Names : p.n >= 1 /\ fs[p] # NoFile
    /\ \E i \in DOMAIN journal :
          /\ journal[i].original_path # journal[i].new_path
          /\ fs[journal[i].original_path] # NoFile
          /\ fs[journal[i].new_path] # NoFile
          /\ fs[journal[i].original_path] # fs[journal[i].new_path]

-----------------------------------------------------------------------------
(* Properties of a batch and its undo *)

\* every file of the batch was reported as renamed
AllRenamed ==
    \A k \in DOMAIN batch.results : "success" \in DOMAIN batch.results[k]

\* no file of the batch was renamed to the name it already had (that
\* rename cannot be undone on its own, whatever the rest of the batch is)
NoSelfRename ==
    \A k \in DOMAIN batch.results :
        batch.results[k].original # batch.results[k].new_path

\* C23: when every file of a batch was renamed and the session of the
\* batch is undone right after, every entry of the session is reported as
\* undone and is marked so, one outcome per entry, and every file is back
\* at the path it had before the batch; this is claimed for every batch,
\* also when the target of one file is the original path of another.
C23_SessionUndoRestoresBatch ==
    (batch.phase = "undone" /\ AllRenamed /\ NoSelfRename) =>
        /\ Len(last.results) = Len(batch.files)
        /\ \A k \in DOMAIN last.results : last.results[k] = "success"
        /\ \A i \in DOMAIN journal :
              journal[i].session_id = batch.session_id => journal[i].undone
        /\ fs = InitialDirectory

=============================================================================
